---- MODULE Spec2Model ----
(***************************************************************************)
(* Snowflake ID generator (src/snowflake.go).                              *)
(*                                                                         *)
(* Go's int64 values are modelled as two's-complement bit vectors, each    *)
(* held as the set of the positions (0..63) of its 1 bits, with shift, or, *)
(* add, subtract and signed comparison computed bit by bit, so that the    *)
(* packing of an ID and its overflow behaviour are those of the code.      *)
(***************************************************************************)
EXTENDS Integers, Sequences, FiniteSets

(***************************************************************************)
(* int64 arithmetic                                                        *)
(***************************************************************************)
W == 64
BitPos == 0 .. (W - 1)

\* 2^k for small k (k <= 30), as a model integer
Pow2(k) == 2 ^ k

\* the int64 value of a model integer n, -2^31 < n < 2^31
I64(n) ==
  IF n >= 0 THEN {i \in 0 .. 30 : (n \div Pow2(i)) % 2 = 1}
  ELSE BitPos \ {i \in 0 .. 30 : ((-n - 1) \div Pow2(i)) % 2 = 1}

\* the first position from k up that is not in x
RECURSIVE RunEnd(_, _)
RunEnd(x, k) == IF k \in x THEN RunEnd(x, k + 1) ELSE k

\* a + b + cin on int64. A carry leaves every bit where a and b are both 1
\* (and enters bit 0 when cin is 1), and runs up through the bits where
\* exactly one of a and b is 1, into the first bit where that is not so; the
\* carry out of bit 63 is lost. p.one are the bits where exactly one of a
\* and b is 1, p.from the bits a carry starts into, carry the bits a carry
\* enters; each is computed once, as the one element of a set.
AddC(a, b, cin) ==
  UNION {UNION {{i \in BitPos : (i \in p.one) # (i \in carry)} :
                  carry \in {UNION {j .. RunEnd(p.one, j) : j \in p.from}}} :
           p \in {[one |-> (a \cup b) \ (a \cap b),
                   from |-> {j + 1 : j \in a \cap b}
                              \cup (IF cin = 1 THEN {0} ELSE {})]}}

Add(a, b) == AddC(a, b, 0)
Not(a) == BitPos \ a
\* a - b on int64, in two's complement: a + ^b + 1
Sub(a, b) == AddC(a, Not(b), 1)
Or(a, b) == a \cup b
And(a, b) == a \cap b
\* a << k on int64: the bits shifted past bit 63 are lost
Shl(a, k) == {i + k : i \in {j \in a : j + k < W}}
\* a >> k on int64: arithmetic, the sign bit is replicated
Shr(a, k) ==
  {i - k : i \in {j \in a : j >= k}}
    \cup (IF (W - 1) \in a THEN (W - k) .. (W - 1) ELSE {})

\* signed a < b: with different signs the negative one is smaller; with the
\* same sign the one that has a 0 at the highest bit where they differ
Lt(a, b) ==
  IF ((W - 1) \in a) # ((W - 1) \in b) THEN (W - 1) \in a
  ELSE \E i \in b \ a : \A j \in a \ b : j < i
Gt(a, b) == Lt(b, a)
Le(a, b) == ~Lt(b, a)

Zero == I64(0)
One == I64(1)
MinusOne == I64(-1)

\* a * n on int64, n a model integer >= 0: shift and add over the bits of n
RECURSIVE MulFrom(_, _, _)
MulFrom(a, n, j) ==
  IF n = 0 THEN {}
  ELSE IF n % 2 = 1 THEN Add(Shl(a, j), MulFrom(a, n \div 2, j + 1))
  ELSE MulFrom(a, n \div 2, j + 1)

Mul(a, n) == MulFrom(a, n, 0)

(***************************************************************************)
(* const ( ... )                                                           *)
(***************************************************************************)
sequenceIDBits == 12
machineIDBits == 5
idcIDBits == 5
machineIDShift == sequenceIDBits
idcIDShift == machineIDBits + machineIDShift
unixMilliShift == idcIDBits + idcIDShift
maxSequenceID == Not(Shl(MinusOne, sequenceIDBits))
maxMachineID == Not(Shl(MinusOne, machineIDBits))
maxIDCID == Not(Shl(MinusOne, idcIDBits))
\* 1669046400000, the millisecond timestamp of 2022-11-22 00:00:00 UTC
\* (1669046400 s), written as a product because it exceeds a model integer
epoch == Mul(I64(1669046400), 1000)

\* the timestamp field of an ID: bits 22..62 (41 bits below the sign bit)
timestampBits == W - 1 - unixMilliShift

ErrInvaildIDCID == "IDGenerator: input invaild IDC ID"
ErrInvaildMachineID == "IDGenerator: input invaild machine ID"
ErrClockBack == "IDGenerator: clock turn back, stop generating to avoid generating repeated ID"
nil == "nil"

(***************************************************************************)
(* Bounds of the model                                                     *)
(***************************************************************************)
NumCallers == 2   \* goroutines that call Generate
MaxCalls == 3     \* Generate calls that are started
MaxTick == 1      \* the clock reads epoch .. epoch+MaxTick, or the last
                  \* millisecond of the 41-bit range

Callers == 1 .. NumCallers

\* the pointers to the generators that may exist: a pair of generators
Gens == {1, 2}

\* the last millisecond whose offset from epoch fits the timestamp field
maxMilli == Add(epoch, Not(Shl(MinusOne, timestampBits)))

\* the readings of time.Now().UnixMilli(): within [epoch, epoch + 2^41)
ClockReadings == {Add(epoch, I64(t)) : t \in 0 .. MaxTick} \cup {maxMilli}

\* the arguments NewIDGenerator is tried on: both ends of the valid range and
\* the first value beyond each end
IDInputs == {MinusOne, Zero, maxIDCID, Add(maxIDCID, One)}

\* the (idcID, machineID) pairs the generators in use are constructed with
Identities == {<<Zero, maxMachineID>>, <<maxIDCID, Zero>>}

VARIABLES
  gens,       \* the generators: pointer -> IDGenerator struct
  clock,      \* the wall clock as last read, in milliseconds
  pc,         \* per caller: "idle", "locked" (line 64), "wait" (line 92)
  self,       \* per caller: the generator Generate was called on (0: none)
  now,        \* per caller: Generate's local variable now
  pre,        \* per caller: what the call in progress has met so far
  calls,      \* number of Generate calls started
  lastNew,    \* the last call of NewIDGenerator: arguments and results
  log         \* the returns of Generate so far, in order

vars == <<gens, clock, pc, self, now, pre, calls, lastNew, log>>

(***************************************************************************)
(* type IDGenerator struct; the mutex is held by a caller, or by none (0)  *)
(***************************************************************************)
IDGenerator(lastMilli, sequenceID, machineID, IDCID) ==
  [lastMilli |-> lastMilli, sequenceID |-> sequenceID,
   machineID |-> machineID, IDCID |-> IDCID, mutex |-> 0]

\* a generator that has been in service: it last minted in a millisecond the
\* clock has read, and has used up all but the last of that millisecond's
\* sequence numbers
WarmGenerators ==
  {IDGenerator(m, Sub(maxSequenceID, One), maxMachineID, Zero) :
     m \in ClockReadings}

\* what a call has met: its first clock reading, the lastMilli and sequenceID
\* it found, and whether tilNextMilli has read a millisecond before lastMilli
NoPre ==
  [first |-> Zero, lastMilli |-> Zero, sequenceID |-> Zero, back |-> FALSE]
NoNew == [idcID |-> Zero, machineID |-> Zero, g |-> 0, err |-> "none"]

\* The program starts with no generator, or is observed from a moment at
\* which one generator is already in service; the clock was last read by
\* the call that stamped that generator, and reads the epoch before any call.
Init ==
  /\ gens \in {<<>>} \cup {<<w>> : w \in WarmGenerators}
  /\ clock = IF gens = <<>> THEN epoch ELSE gens[1].lastMilli
  /\ pc = [c \in Callers |-> "idle"]
  /\ self = [c \in Callers |-> 0]
  /\ now = [c \in Callers |-> Zero]
  /\ pre = [c \in Callers |-> NoPre]
  /\ calls = 0
  /\ lastNew = NoNew
  /\ log = <<>>

(***************************************************************************)
(* func NewIDGenerator(idcID, machineID int64): a generator or an error    *)
(***************************************************************************)
\* the range check of line 46 with >= for >
InvalidIDCIDOffByOne(idcID) == ~Lt(idcID, maxIDCID) \/ Lt(idcID, Zero)

\* line 46
InvalidIDCID(idcID) == Gt(idcID, maxIDCID) \/ Lt(idcID, Zero)
\* line 49
InvalidMachineID(machineID) == Gt(machineID, maxMachineID) \/ Lt(machineID, Zero)

NewIDGenerator(idcID, machineID) ==
  /\ Len(gens) + 1 \in Gens
  /\ IF InvalidIDCID(idcID)
     THEN /\ gens' = gens
          /\ lastNew' = [idcID |-> idcID, machineID |-> machineID,
                         g |-> 0, err |-> ErrInvaildIDCID]
     ELSE IF InvalidMachineID(machineID)
     THEN /\ gens' = gens
          /\ lastNew' = [idcID |-> idcID, machineID |-> machineID,
                         g |-> 0, err |-> ErrInvaildMachineID]
     ELSE /\ gens' = Append(gens, IDGenerator(MinusOne, Zero, machineID, idcID))
          /\ lastNew' = [idcID |-> idcID, machineID |-> machineID,
                         g |-> Len(gens) + 1, err |-> nil]
  /\ UNCHANGED <<clock, pc, self, now, pre, calls, log>>

(***************************************************************************)
(* func (g IDGenerator) Generate(): an ID or an error                      *)
(***************************************************************************)
\* line 62 left out: a caller enters whether or not the mutex is held
LockWithoutMutex(c, g) ==
  /\ pc[c] = "idle"
  /\ g \in DOMAIN gens
  /\ calls < MaxCalls
  /\ gens' = [gens EXCEPT ![g].mutex = c]
  /\ calls' = calls + 1
  /\ pc' = [pc EXCEPT ![c] = "locked"]
  /\ self' = [self EXCEPT ![c] = g]
  /\ UNCHANGED <<clock, now, pre, lastNew, log>>

\* line 62 on one mutex shared by all generators (line 41 a package
\* variable): a caller enters only when no generator's mutex is held
LockShared(c, g) ==
  /\ pc[c] = "idle"
  /\ g \in DOMAIN gens
  /\ calls < MaxCalls
  /\ \A h \in DOMAIN gens : gens[h].mutex = 0
  /\ gens' = [gens EXCEPT ![g].mutex = c]
  /\ calls' = calls + 1
  /\ pc' = [pc EXCEPT ![c] = "locked"]
  /\ self' = [self EXCEPT ![c] = g]
  /\ UNCHANGED <<clock, now, pre, lastNew, log>>

\* g.mutex.Lock(): a caller enters g.Generate() and takes the mutex, which
\* it can only when no caller holds it
Lock(c, g) ==
  /\ pc[c] = "idle"
  /\ g \in DOMAIN gens
  /\ calls < MaxCalls
  /\ gens[g].mutex = 0
  /\ gens' = [gens EXCEPT ![g].mutex = c]
  /\ calls' = calls + 1
  /\ pc' = [pc EXCEPT ![c] = "locked"]
  /\ self' = [self EXCEPT ![c] = g]
  /\ UNCHANGED <<clock, now, pre, lastNew, log>>

\* line 66 without its check
ClockTurnedBackOff(t, g) == FALSE

\* line 66 with <= for <
ClockTurnedBackOrEqual(t, g) == Le(t, g.lastMilli)

\* line 66: now < g.lastMilli
ClockTurnedBack(t, g) == Lt(t, g.lastMilli)

\* line 72 left out
IncrementForgotten(g) == g

\* line 72 adding 2
IncrementByTwo(g) == [g EXCEPT !.sequenceID = Add(g.sequenceID, I64(2))]

\* line 72: g.sequenceID++
Increment(g) == [g EXCEPT !.sequenceID = Add(g.sequenceID, One)]

\* line 73 with >= for >
ExhaustedEarly(g) == ~Lt(g.sequenceID, maxSequenceID)

\* line 73 comparing with maxSequenceID + 1
ExhaustedLate(g) == Gt(g.sequenceID, Add(maxSequenceID, One))

\* line 73: g.sequenceID > maxSequenceID
Exhausted(g) == Gt(g.sequenceID, maxSequenceID)

\* lines 76 and 79 left out
ResetForgotten(g) == g

\* lines 76 and 79: g.sequenceID = 0
Reset(g) == [g EXCEPT !.sequenceID = Zero]

\* line 81 left out
StampForgotten(g, t) == g

\* line 81: g.lastMilli = now
Stamp(g, t) == [g EXCEPT !.lastMilli = t]

\* line 82 with the IDC number shifted by machineIDShift
PackOverlap(t, g) ==
  Or(Or(Or(Shl(Sub(t, epoch), unixMilliShift), Shl(g.IDCID, machineIDShift)),
        Shl(g.machineID, machineIDShift)),
     g.sequenceID)

\* line 82 with the IDC number and the machine number in each other's place
PackSwapped(t, g) ==
  Or(Or(Or(Shl(Sub(t, epoch), unixMilliShift), Shl(g.machineID, idcIDShift)),
        Shl(g.IDCID, machineIDShift)),
     g.sequenceID)

\* line 82 without the subtraction of epoch
PackNoEpoch(t, g) ==
  Or(Or(Or(Shl(t, unixMilliShift), Shl(g.IDCID, idcIDShift)),
        Shl(g.machineID, machineIDShift)),
     g.sequenceID)

\* line 82: the ID packed from now and the generator's fields
Pack(t, g) ==
  Or(Or(Or(Shl(Sub(t, epoch), unixMilliShift), Shl(g.IDCID, idcIDShift)),
        Shl(g.machineID, machineIDShift)),
     g.sequenceID)

\* line 63 left out
UnlockForgotten(g) == g

\* the generator after the deferred g.mutex.Unlock()
Unlock(g) == [g EXCEPT !.mutex = 0]

\* return id, err from Generate, with the deferred Unlock; g1 is the
\* generator as the call leaves it, p what the call has met
Return(c, g1, id, err, p, waited) ==
  /\ gens' = [gens EXCEPT ![self[c]] = Unlock(g1)]
  /\ log' = Append(log, [g |-> self[c], id |-> id, err |-> err,
                         waited |-> waited, pre |-> p,
                         lastMilli |-> g1.lastMilli,
                         sequenceID |-> g1.sequenceID])
  /\ pc' = [pc EXCEPT ![c] = "idle"]
  /\ self' = [self EXCEPT ![c] = 0]
  /\ now' = [now EXCEPT ![c] = Zero]
  /\ pre' = [pre EXCEPT ![c] = NoPre]

\* lines 64-83, up to the return or to the call of tilNextMilli; t is what
\* g.now() returns
Generate(c, t) ==
  /\ pc[c] = "locked"
  /\ clock' = t
  /\ LET g == gens[self[c]]
         p == [first |-> t, lastMilli |-> g.lastMilli,
               sequenceID |-> g.sequenceID, back |-> FALSE]
     IN  IF ClockTurnedBack(t, g)
         THEN Return(c, g, MinusOne, ErrClockBack, p, FALSE)
         ELSE IF t = g.lastMilli
         THEN LET g1 == Increment(g)
              IN  IF Exhausted(g1)
                  THEN /\ gens' = [gens EXCEPT ![self[c]] = g1]
                       /\ now' = [now EXCEPT ![c] = t]
                       /\ pre' = [pre EXCEPT ![c] = p]
                       /\ pc' = [pc EXCEPT ![c] = "wait"]
                       /\ UNCHANGED <<self, log>>
                  ELSE LET g2 == Stamp(g1, t)
                       IN  Return(c, g2, Pack(t, g2), nil, p, FALSE)
         ELSE LET g1 == IF Gt(t, g.lastMilli) THEN Reset(g) ELSE g
                  g2 == Stamp(g1, t)
              IN  Return(c, g2, Pack(t, g2), nil, p, FALSE)
  /\ UNCHANGED <<calls, lastNew>>

\* g.tilNextMilli(now): one turn of the loop; t is what g.now() returns
tilNextMilli(c, t) ==
  /\ pc[c] = "wait"
  /\ Le(now[c], gens[self[c]].lastMilli)
  /\ clock' = t
  /\ now' = [now EXCEPT ![c] = t]
  /\ pre' = [pre EXCEPT ![c].back = @ \/ Lt(t, gens[self[c]].lastMilli)]
  /\ UNCHANGED <<gens, pc, self, calls, lastNew, log>>

\* line 92 without its test: tilNextMilli returns whatever it has read
ResumeAtOnce(c) ==
  /\ pc[c] = "wait"
  /\ LET g2 == Stamp(Reset(gens[self[c]]), now[c])
     IN  Return(c, g2, Pack(now[c], g2), nil, pre[c], TRUE)
  /\ UNCHANGED <<clock, calls, lastNew>>

\* tilNextMilli returns; lines 75-82 of Generate
Resume(c) ==
  /\ pc[c] = "wait"
  /\ ~Le(now[c], gens[self[c]].lastMilli)
  /\ LET g2 == Stamp(Reset(gens[self[c]]), now[c])
     IN  Return(c, g2, Pack(now[c], g2), nil, pre[c], TRUE)
  /\ UNCHANGED <<clock, calls, lastNew>>

(***************************************************************************)
(* func (g IDGenerator) now(): time.Now().UnixMilli(). A wall clock may    *)
(* read any millisecond of its range, also one before its last reading; a  *)
(* monotonic clock reads no millisecond before its last reading.           *)
(***************************************************************************)
Monotonic(t) == Le(clock, t)

Next ==
  \/ \E i \in Identities : NewIDGenerator(i[1], i[2])
  \/ \E c \in Callers, g \in Gens : Lock(c, g)
  \/ \E c \in Callers, t \in ClockReadings : Generate(c, t)
  \/ \E c \in Callers, t \in ClockReadings : tilNextMilli(c, t)
  \/ \E c \in Callers : Resume(c)

Spec == Init /\ [][Next]_vars

\* the same program with its scheduling: a caller that holds the mutex keeps
\* running, so it reads the clock, goes round the loop of tilNextMilli and
\* returns when it can; what the clock reads is left open
Fairness ==
  \A c \in Callers :
    /\ WF_vars(\E t \in ClockReadings : Generate(c, t))
    /\ WF_vars(\E t \in ClockReadings : tilNextMilli(c, t))
    /\ WF_vars(Resume(c))

SpecLive == Init /\ [][Next]_vars /\ Fairness

\* the same program under a clock that never moves backward
NextMono ==
  \/ \E i \in Identities : NewIDGenerator(i[1], i[2])
  \/ \E c \in Callers, g \in Gens : Lock(c, g)
  \/ \E c \in Callers, t \in ClockReadings : Monotonic(t) /\ Generate(c, t)
  \/ \E c \in Callers, t \in ClockReadings : Monotonic(t) /\ tilNextMilli(c, t)
  \/ \E c \in Callers : Resume(c)

SpecMono == Init /\ [][NextMono]_vars

\* construction alone, tried on every input
NextNew == \E a \in IDInputs, b \in IDInputs : NewIDGenerator(a, b)

SpecNew == Init /\ [][NextNew]_vars

(***************************************************************************)
(* Properties                                                              *)
(***************************************************************************)
\* 4095 and 31, the largest values of 12 and of 5 bits
Low12 == I64(4095)
Low5 == I64(31)
\* 4096, the first value beyond 12 bits
Over12 == Add(Low12, One)

\* the fields of an ID, read back as section 8 of the specification reads them
TimestampOf(id) == Add(Shr(id, 22), epoch)
DatacenterOf(id) == And(Shr(id, 17), Low5)
MachineOf(id) == And(Shr(id, 12), Low5)
SequenceOf(id) == And(id, Low12)

Returns == DOMAIN log
\* the returns of Generate with an ID
Minted == {i \in Returns : log[i].err = nil}
\* return j is the first return of the same generator after return i
NextOf(i, j) ==
  /\ i < j
  /\ log[i].g = log[j].g
  /\ \A k \in Returns : i < k /\ k < j => log[k].g # log[i].g
\* return j is the first return with an ID of the same generator after the
\* return i with an ID
NextMinted(i, j) ==
  /\ i \in Minted /\ j \in Minted /\ i < j
  /\ log[i].g = log[j].g
  /\ \A k \in Minted : i < k /\ k < j => log[k].g # log[i].g
SameIdentity(g, h) ==
  gens[g].IDCID = gens[h].IDCID /\ gens[g].machineID = gens[h].machineID

\* C1: the IDs that one generator has returned, to any callers and under any
\* clock, are pairwise distinct.
C1_DistinctIDs ==
  \A i \in Minted, j \in Minted :
    i # j /\ log[i].g = log[j].g => log[i].id # log[j].id

\* two IDs of one generator, while another caller is inside Generate on it
C1_Witness ==
  \E i \in Minted, j \in Minted :
    /\ i < j /\ log[i].g = log[j].g
    /\ \E c \in Callers : pc[c] # "idle" /\ self[c] = log[i].g

\* C2: under a clock whose readings never decrease, the IDs one generator
\* returns are strictly increasing in the order of return, also across a
\* wait for the next millisecond.
C2_StrictlyIncreasing ==
  \A i \in Minted, j \in Minted :
    i < j /\ log[i].g = log[j].g => Lt(log[i].id, log[j].id)

\* an ID returned after a wait for the next millisecond, after an earlier ID
\* of the same generator
C2_Witness ==
  \E i \in Minted, j \in Minted :
    i < j /\ log[i].g = log[j].g /\ log[j].waited

\* a call whose first clock reading is before lastMilli returns ErrClockBack
\* and leaves lastMilli and sequenceID as it found them
C3_ErrorLeavesState ==
  \A i \in Returns :
    Lt(log[i].pre.first, log[i].pre.lastMilli) =>
      /\ log[i].err = ErrClockBack
      /\ log[i].lastMilli = log[i].pre.lastMilli
      /\ log[i].sequenceID = log[i].pre.sequenceID

\* C3 as claimed: after ErrClockBack the next call of the generator that
\* reads a millisecond >= lastMilli finds the state unchanged and returns an
\* ID with sequence + 1 when it reads lastMilli, and with 0 when it reads a
\* later millisecond.
C3_AsClaimed ==
  /\ C3_ErrorLeavesState
  /\ \A i \in Returns, j \in Returns :
       /\ NextOf(i, j)
       /\ log[i].err = ErrClockBack
       /\ ~Lt(log[j].pre.first, log[j].pre.lastMilli)
       => /\ log[j].err = nil
          /\ log[j].pre.lastMilli = log[i].pre.lastMilli
          /\ log[j].pre.sequenceID = log[i].pre.sequenceID
          /\ SequenceOf(log[j].id) =
               IF log[j].pre.first = log[j].pre.lastMilli
               THEN Add(log[i].pre.sequenceID, One) ELSE Zero

\* C3, amended: as claimed, but when the next call reads lastMilli and
\* sequenceID is 4095 it waits, and returns sequence 0 with a later
\* millisecond.
C3_Amended ==
  /\ C3_ErrorLeavesState
  /\ \A i \in Returns, j \in Returns :
       /\ NextOf(i, j)
       /\ log[i].err = ErrClockBack
       /\ ~Lt(log[j].pre.first, log[j].pre.lastMilli)
       => /\ log[j].err = nil
          /\ log[j].pre.lastMilli = log[i].pre.lastMilli
          /\ log[j].pre.sequenceID = log[i].pre.sequenceID
          /\ IF log[j].pre.first # log[j].pre.lastMilli
             THEN SequenceOf(log[j].id) = Zero
             ELSE IF log[i].pre.sequenceID = Low12
             THEN /\ log[j].waited
                  /\ SequenceOf(log[j].id) = Zero
                  /\ Gt(TimestampOf(log[j].id), log[j].pre.lastMilli)
             ELSE /\ SequenceOf(log[j].id) = Add(log[i].pre.sequenceID, One)
                  /\ TimestampOf(log[j].id) = log[j].pre.lastMilli

\* ErrClockBack, then an ID from a call of the same generator that read
\* lastMilli with sequenceID at 4095
C3_Witness ==
  \E i \in Returns, j \in Returns :
    /\ NextOf(i, j) /\ log[i].err = ErrClockBack /\ log[j].err = nil
    /\ log[j].pre.first = log[j].pre.lastMilli
    /\ log[j].pre.sequenceID = Low12

\* C4: two generators with different (IDCID, machineID) never return the
\* same ID.
C4_DistinctAcrossGenerators ==
  \A i \in Minted, j \in Minted :
    log[i].g # log[j].g /\ ~SameIdentity(log[i].g, log[j].g)
      => log[i].id # log[j].id

\* two generators with different identities have minted in the same
\* millisecond with the same sequence
C4_Witness ==
  \E i \in Minted, j \in Minted :
    /\ log[i].g # log[j].g /\ ~SameIdentity(log[i].g, log[j].g)
    /\ log[i].lastMilli = log[j].lastMilli
    /\ log[i].sequenceID = log[j].sequenceID

\* C5: every returned ID reads back as the millisecond and the sequence the
\* call stored and the identity of its generator.
C5_FieldsRoundTrip ==
  \A i \in Minted :
    /\ TimestampOf(log[i].id) = log[i].lastMilli
    /\ DatacenterOf(log[i].id) = gens[log[i].g].IDCID
    /\ MachineOf(log[i].id) = gens[log[i].g].machineID
    /\ SequenceOf(log[i].id) = log[i].sequenceID

\* IDs with every field at its largest: the last millisecond with sequence
\* 4095 and machine 31, and an ID of datacenter 31
C5_Witness ==
  /\ \E i \in Minted :
       /\ log[i].lastMilli = maxMilli
       /\ log[i].sequenceID = Low12
       /\ gens[log[i].g].machineID = Low5
  /\ \E i \in Minted : gens[log[i].g].IDCID = Low5

\* C6: the calls of one millisecond that return without waiting carry the
\* next sequence number, up to 4095; the call that reads that millisecond
\* once more (the 4097th) waits, returns only with a reading after that
\* millisecond, and then returns that reading with sequence 0 and stores it
\* as lastMilli; and only that call waits.
C6_Exhaustion ==
  /\ \A i \in Minted :
       /\ log[i].waited <=>
            /\ log[i].pre.first = log[i].pre.lastMilli
            /\ log[i].pre.sequenceID = Low12
       /\ log[i].waited =>
            /\ Gt(log[i].lastMilli, log[i].pre.lastMilli)
            /\ TimestampOf(log[i].id) = log[i].lastMilli
            /\ SequenceOf(log[i].id) = Zero
            /\ log[i].sequenceID = Zero
       /\ ~log[i].waited /\ log[i].pre.first = log[i].pre.lastMilli =>
            /\ SequenceOf(log[i].id) = Add(log[i].pre.sequenceID, One)
            /\ Le(SequenceOf(log[i].id), Low12)
            /\ TimestampOf(log[i].id) = log[i].pre.lastMilli
  /\ \A c \in Callers :
       pc[c] = "wait" =>
         /\ pre[c].first = gens[self[c]].lastMilli
         /\ pre[c].sequenceID = Low12
         /\ gens[self[c]].lastMilli = pre[c].lastMilli

\* the call after sequence 4095 has waited and returned, after the call that
\* returned sequence 4095 in the same millisecond
C6_Witness ==
  \E i \in Minted, j \in Minted :
    /\ NextMinted(i, j)
    /\ log[i].sequenceID = Low12
    /\ log[j].pre.first = log[i].lastMilli
    /\ log[j].waited

\* C7: when the ID after an ID of sequence s < 4095 is minted by a call that
\* read the same millisecond, it has the same timestamp and sequence s + 1.
C7_NextSequence ==
  \A i \in Minted, j \in Minted :
    /\ NextMinted(i, j)
    /\ log[j].pre.first = TimestampOf(log[i].id)
    /\ Lt(SequenceOf(log[i].id), Low12)
    => /\ TimestampOf(log[j].id) = TimestampOf(log[i].id)
       /\ SequenceOf(log[j].id) = Add(SequenceOf(log[i].id), One)

\* sequences 0, 1 and 2 of one millisecond, returned in a row
C7_Witness ==
  \E i \in Minted, j \in Minted, k \in Minted :
    /\ NextMinted(i, j) /\ NextMinted(j, k)
    /\ SequenceOf(log[i].id) = Zero
    /\ log[j].pre.first = TimestampOf(log[i].id)
    /\ log[k].pre.first = TimestampOf(log[i].id)

\* an identity argument within [0, 31]
InRange(x) == Le(Zero, x) /\ Le(x, Low5)

\* C8: NewIDGenerator returns a generator exactly when both arguments are in
\* [0, 31], and then one with lastMilli -1, sequence 0 and the arguments as
\* its identity; otherwise no generator and ErrInvaildIDCID when idcID is out
\* of range, ErrInvaildMachineID when only machineID is.
C8_Construction ==
  lastNew.err # "none" =>
    /\ (lastNew.g # 0) <=> (InRange(lastNew.idcID) /\ InRange(lastNew.machineID))
    /\ (lastNew.g # 0) <=> (lastNew.err = nil)
    /\ lastNew.g # 0 =>
         /\ lastNew.g \in DOMAIN gens
         /\ gens[lastNew.g].lastMilli = MinusOne
         /\ gens[lastNew.g].sequenceID = Zero
         /\ gens[lastNew.g].IDCID = lastNew.idcID
         /\ gens[lastNew.g].machineID = lastNew.machineID
    /\ ~InRange(lastNew.idcID) => lastNew.err = ErrInvaildIDCID
    /\ InRange(lastNew.idcID) /\ ~InRange(lastNew.machineID) =>
         lastNew.err = ErrInvaildMachineID

\* NewIDGenerator was called with both arguments out of range
C8_Witness ==
  /\ lastNew.err = ErrInvaildIDCID
  /\ ~InRange(lastNew.idcID) /\ ~InRange(lastNew.machineID)

\* C9: Generate returns ErrClockBack exactly when its first clock reading is
\* before lastMilli, and returns no other error; a call that has waited
\* returns an ID, also when it has read a millisecond before lastMilli while
\* waiting.
C9_OnlyClockBack ==
  \A i \in Returns :
    /\ log[i].err \in {nil, ErrClockBack}
    /\ log[i].err = ErrClockBack <=>
         Lt(log[i].pre.first, log[i].pre.lastMilli)
    /\ log[i].waited => log[i].err = nil
    /\ log[i].pre.sequenceID = Low12
         /\ log[i].pre.first = log[i].pre.lastMilli => log[i].err = nil

\* a call has waited, read a millisecond before lastMilli while waiting, and
\* returned
C9_Witness ==
  \E i \in Returns : log[i].waited /\ log[i].pre.back

Inside(c, g) == pc[c] # "idle" /\ self[c] = g

\* C11: no two callers are inside the body of Generate on the same
\* generator at the same time, and the one that is holds its mutex.
C11_OneCallerInside ==
  \A g \in DOMAIN gens :
    \A c \in Callers, d \in Callers :
      Inside(c, g) /\ Inside(d, g) => c = d /\ gens[g].mutex = c

\* a caller is inside Generate on a generator, after a call on that
\* generator has returned, while another caller is free to call and cannot
\* enter
C11_Witness ==
  \E g \in DOMAIN gens, c \in Callers, d \in Callers :
    /\ Inside(c, g) /\ pc[d] = "idle" /\ calls < MaxCalls
    /\ \E i \in Returns : log[i].g = g
    /\ ~ENABLED Lock(d, g)

\* C12: a mutex is held only by a caller that is inside Generate on its
\* generator, so every call that has returned, with an ID or with
\* ErrClockBack, has released it; and with the mutex free a caller that is
\* free to call can take it.
C12_ReturnReleasesLock ==
  \A g \in DOMAIN gens :
    /\ gens[g].mutex # 0 =>
         gens[g].mutex \in Callers /\ Inside(gens[g].mutex, g)
    /\ \A d \in Callers :
         (\A c \in Callers : ~Inside(c, g)) /\ pc[d] = "idle"
           /\ calls < MaxCalls => ENABLED Lock(d, g)

\* a call has returned ErrClockBack, and the next call on that generator has
\* returned an ID and left the mutex free
C12_Witness ==
  \E i \in Returns, j \in Returns :
    /\ NextOf(i, j) /\ log[i].err = ErrClockBack /\ log[j].err = nil
    /\ gens[log[j].g].mutex = 0

\* C13: while a caller is in the wait for the next millisecond it holds the
\* mutex of its generator, and as long as it stays in the wait no call on
\* that generator returns and the generator's lastMilli stays as it is.
C13_WaitHoldsLock ==
  [][\A c \in Callers :
       pc[c] = "wait" =>
         /\ gens[self[c]].mutex = c
         /\ pc'[c] = "wait" =>
              /\ gens'[self[c]].mutex = c
              /\ gens'[self[c]].lastMilli = gens[self[c]].lastMilli
              /\ \/ log' = log
                 \/ log'[Len(log')].g # self[c]]_vars

\* a caller is in the wait, has read the clock there, and another caller is
\* free to call
C13_Witness ==
  \E c \in Callers, d \in Callers :
    /\ pc[c] = "wait" /\ pre[c].back
    /\ pc[d] = "idle" /\ calls < MaxCalls

\* C14: a call that holds the mutex and never returns is, from some moment
\* on, in the wait with every clock reading at or below lastMilli; and a call
\* in the wait whose last reading is at or below lastMilli stays in the wait
\* and keeps the mutex, so that no other caller enters.
C14_ReturnsIffClockAdvances ==
  /\ \A c \in Callers :
       <>[](pc[c] # "idle") =>
         <>[](pc[c] = "wait" /\ Le(now[c], gens[self[c]].lastMilli))
  /\ [][\A c \in Callers :
          pc[c] = "wait" /\ Le(now[c], gens[self[c]].lastMilli) =>
            /\ pc'[c] = "wait"
            /\ gens'[self[c]].mutex = c
            /\ \A d \in Callers : Inside(d, self[c])' => d = c]_vars

\* a caller waits on a generator whose lastMilli is the last millisecond the
\* clock can read, while another caller is free to call
C14_Witness ==
  \E c \in Callers, d \in Callers :
    /\ pc[c] = "wait" /\ gens[self[c]].lastMilli = maxMilli
    /\ pc[d] = "idle" /\ calls < MaxCalls

\* C15: lastMilli is never lower after a call of Generate than before it,
\* under any clock; it changes only by a call's return; and after a call
\* that returns an ID it is the timestamp of that ID.
C15_LastMilliNeverDecreases ==
  /\ \A i \in Returns :
       /\ Le(log[i].pre.lastMilli, log[i].lastMilli)
       /\ log[i].err = nil => TimestampOf(log[i].id) = log[i].lastMilli
       /\ (\A k \in Returns : k > i => log[k].g # log[i].g) =>
            gens[log[i].g].lastMilli = log[i].lastMilli
  /\ \A i \in Returns, j \in Returns :
       NextOf(i, j) => log[j].pre.lastMilli = log[i].lastMilli

\* a call has moved lastMilli forward, and the next call on that generator
\* has read an earlier millisecond
C15_Witness ==
  \E i \in Returns, j \in Returns :
    /\ NextOf(i, j)
    /\ log[i].err = nil /\ Gt(log[i].lastMilli, log[i].pre.lastMilli)
    /\ Lt(log[j].pre.first, log[i].lastMilli)

\* C16: the IDs one generator mints with one timestamp carry the sequence
\* numbers 0, 1, 2, ... in the order of their return, at most up to 4095: an
\* ID that is the first of its timestamp has sequence 0, every other has the
\* sequence of the ID returned before it plus 1, and that ID has the same
\* timestamp, whatever calls have returned ErrClockBack in between. (Of a
\* generator already in service the first ID returned may continue the
\* millisecond the generator was in.)
C16_SequencePerMillisecond ==
  \A i \in Minted :
    LET same == {k \in Minted : /\ k < i
                                /\ log[k].g = log[i].g
                                /\ Shr(log[k].id, 22) = Shr(log[i].id, 22)}
    IN  /\ Le(Zero, SequenceOf(log[i].id))
        /\ Le(SequenceOf(log[i].id), Low12)
        /\ IF same # {}
           THEN \E k \in same :
                  /\ NextMinted(k, i)
                  /\ SequenceOf(log[i].id) = Add(SequenceOf(log[k].id), One)
           ELSE IF log[i].pre.lastMilli = TimestampOf(log[i].id)
           THEN /\ \A k \in Minted : k < i => log[k].g # log[i].g
                /\ SequenceOf(log[i].id) = Add(log[i].pre.sequenceID, One)
           ELSE SequenceOf(log[i].id) = Zero

\* a new generator has returned sequence 0 and then sequence 1 of one
\* millisecond, with an ErrClockBack return in between
C16_Witness ==
  \E i \in Minted, e \in Returns, j \in Minted :
    /\ i < e /\ e < j
    /\ log[i].g = log[e].g /\ log[e].g = log[j].g
    /\ log[i].pre.lastMilli = MinusOne
    /\ log[e].err = ErrClockBack
    /\ SequenceOf(log[i].id) = Zero /\ SequenceOf(log[j].id) = One
    /\ TimestampOf(log[i].id) = TimestampOf(log[j].id)

\* C17 as claimed: the sequenceID of every generator is in [0, 4095] in
\* every state, also inside Generate and during the wait.
C17_AsClaimed ==
  \A g \in DOMAIN gens :
    Le(Zero, gens[g].sequenceID) /\ Le(gens[g].sequenceID, Low12)

\* C17, amended: the sequenceID of a generator is in [0, 4095] except while
\* a call is in the wait for the next millisecond, when it is 4096; and it
\* is in [0, 4095] when a call returns.
C17_Amended ==
  /\ \A g \in DOMAIN gens :
       IF \E c \in Callers : pc[c] = "wait" /\ self[c] = g
       THEN gens[g].sequenceID = Over12
       ELSE Le(Zero, gens[g].sequenceID) /\ Le(gens[g].sequenceID, Low12)
  /\ \A i \in Returns :
       Le(Zero, log[i].sequenceID) /\ Le(log[i].sequenceID, Low12)

\* a call is in the wait, its last reading not after lastMilli, and the
\* sequenceID of its generator is 4096
C17_Witness ==
  \E c \in Callers :
    /\ pc[c] = "wait"
    /\ gens[self[c]].sequenceID = Over12
    /\ Le(now[c], gens[self[c]].lastMilli)

\* C18: a step of a call on one generator leaves every other generator as it
\* is (lastMilli, sequenceID, machineID, IDCID and mutex); and a caller that
\* is free to call enters Generate on a generator whose mutex is free,
\* whatever calls are in progress on other generators.
C18_Independent ==
  /\ [](\A g \in DOMAIN gens, d \in Callers :
          gens[g].mutex = 0 /\ pc[d] = "idle" /\ calls < MaxCalls
            => ENABLED Lock(d, g))
  /\ [][\A h \in DOMAIN gens :
          gens'[h] # gens[h] =>
            /\ \E c \in Callers :
                 (self[c] = h \/ self'[c] = h) /\ pc'[c] # pc[c]
            /\ \A k \in DOMAIN gens : k # h => gens'[k] = gens[k]]_vars

\* a caller is in the wait on one generator while another caller is inside
\* Generate on another generator
C18_Witness ==
  \E c \in Callers, d \in Callers :
    /\ pc[c] = "wait"
    /\ pc[d] = "locked" /\ self[d] # self[c]

====
